---------------------------- MODULE Spec2Model ----------------------------
(***************************************************************************)
(* Model of the data-ingestion collaborators and the validation harness of *)
(* the pollution source-attribution system:                                *)
(*   fetch_cpcb_live.py   live feed ingester (station matching, per-station*)
(*                        pollutant files)                                 *)
(*   backfill_wind.py     meteorology backfill (wind_stations.csv)         *)
(*   test_comprehensive_attribution.py   validation harness (run_test)     *)
(* The attribution engine itself is not part of the sources; its           *)
(* crop-burning rule and the Aggregator's renormalisation step are         *)
(* modelled from the design document.                                      *)
(***************************************************************************)
EXTENDS Integers, Sequences, FiniteSets, TLC

(***************************************************************************)
(* State.  The parts of the system share no state; each specification at   *)
(* the end of the module runs one of them and leaves the others idle.      *)
(***************************************************************************)
VARIABLES
    m_pc,          \* find_matching_station harness: "call" | "done"
    m_rss_name,    \* the feed's station name
    m_stations,    \* the metadata table (sequence of rows)
    m_result       \* index of the returned row, 0 for None

matchVars == <<m_pc, m_rss_name, m_stations, m_result>>

VARIABLES
    files,         \* station_data/<filename>: [status, rows]
    f_pc,          \* main: "idle" | "loop"
    f_seen,        \* station ids of the feed that main's loop has handled
    f_entry,       \* <<e>>: the feed entry e the loop handled last
    matched,       \* main's counter
    updated,       \* main's counter
    f_ret          \* the last update_station_csv call returned "True" | "False"

ingestVars == <<files, f_pc, f_seen, f_entry, matched, updated, f_ret>>

VARIABLES
    b_pc,          \* main: "start" | "get_last" | "plan" | "fetch" | "done" | "error"
    b_meta,        \* stations_metadata.csv exists
    wind_file,     \* wind_stations.csv: [status, rows]
    now,           \* datetime.now(), in hours
    last_ts,       \* <<t>>: the last recorded timestamp t; <<>>: None
    use_forecast,  \* main's flag
    b_idx,         \* position of main's loop in stations
    all_data,      \* main's list of filtered per-station frames
    b_skipped,     \* station ids whose fetch gave nothing
    b_failed,      \* station ids whose fetch failed and returned None
    b_wrote        \* main has written wind_stations.csv in this run

backfillVars == <<b_pc, b_meta, wind_file, now, last_ts, use_forecast, b_idx,
                  all_data, b_skipped, b_failed, b_wrote>>

VARIABLES
    t_pc,          \* run_test harness: "call" | "done"
    t_case,        \* the test case
    t_api_ok,      \* the request succeeded (no exception in lines 333-336)
    t_response,    \* result['contributions']
    t_passed       \* what run_test returned

harnessVars == <<t_pc, t_case, t_api_ok, t_response, t_passed>>

VARIABLES
    a_pc,          \* "call" | "done"
    a_priors,      \* prior_percentage per source
    a_factors,     \* modulation_factor per source
    a_percentages  \* percentage per source of the response

aggregatorVars == <<a_pc, a_priors, a_factors, a_percentages>>

VARIABLES
    e_pc,          \* modulation engine: "call" | "done"
    e_request,     \* the request: [wind_dir, month, blh, fire_count]
    e_priors,      \* prior_percentage per source
    e_rest,        \* factors of the sources that no modelled rule sets
    e_pct          \* percentage per source of the response

engineVars == <<e_pc, e_request, e_priors, e_rest, e_pct>>

VARIABLES
    p_pc,          \* parse_rss_feed, then update_station_csv: "parse" | "update" | "done"
    p_raw,         \* Hourly_sub_index attribute per Pollutant_Index id of the element
    p_pollutants,  \* <<m>>: the pollutant map m of the parsed station
    p_rows,        \* rows of the station file
    p_ret          \* what update_station_csv returned

parseVars == <<p_pc, p_raw, p_pollutants, p_rows, p_ret>>

VARIABLES
    c_pc,          \* --continuous loop: "main" | "fetched" | "loop" | "sleep" | "crashed"
    c_env,         \* what this cycle meets: [metadata, network, xml, csv]
    c_last,        \* how the previous cycle ended
    c_cycles       \* cycles started, counted up to MaxCycles

continuousVars == <<c_pc, c_env, c_last, c_cycles>>

VARIABLES
    r_pc,          \* two runs of main on one feed: "loop" | "summary" | "done"
    r_feed,        \* the parsed feed, the same in both runs
    r_files,       \* station_data/<filename>: [status, rows]
    r_run,         \* 1 | 2
    r_idx,         \* position of main's loop in the feed
    r_updated,     \* main's counter
    r_first        \* <<fs>>: the station files fs as the first run left them

rerunVars == <<r_pc, r_feed, r_files, r_run, r_idx, r_updated, r_first>>

vars == <<matchVars, ingestVars, backfillVars, harnessVars, aggregatorVars,
          engineVars, parseVars, continuousVars, rerunVars>>

None == "None"

(***************************************************************************)
(* Generic helpers                                                         *)
(***************************************************************************)
Max(S) == CHOOSE x \in S : \A y \in S : y <= x

Min(S) == CHOOSE x \in S : \A y \in S : x <= y

Range(s) == {s[i] : i \in 1..Len(s)}

RECURSIVE SumSeq(_)
SumSeq(s) == IF s = <<>> THEN 0 ELSE Head(s) + SumSeq(Tail(s))

RECURSIVE Concat(_)
Concat(ss) == IF ss = <<>> THEN <<>> ELSE Head(ss) \o Concat(Tail(ss))

(* all sequences over S of length 0..n *)
SeqUpTo(S, n) == UNION {[1..k -> S] : k \in 0..n}

(***************************************************************************)
(* Strings are sequences of one-character strings.                         *)
(***************************************************************************)
(* str.lower(), on the letters that occur in the modelled names *)
LowerChar(c) ==
    CASE c = "A" -> "a"
      [] c = "B" -> "b"
      [] c = "C" -> "c"
      [] c = "D" -> "d"
      [] c = "P" -> "p"
      [] OTHER -> c

Lower(s) == [i \in 1..Len(s) |-> LowerChar(s[i])]

(* str.strip(): drop leading and trailing whitespace *)
Strip(s) ==
    LET idx == {i \in 1..Len(s) : s[i] # " "}
    IN  IF idx = {} THEN <<>> ELSE SubSeq(s, Min(idx), Max(idx))

StartsWith(s, p) == Len(p) <= Len(s) /\ SubSeq(s, 1, Len(p)) = p

(* str.replace(old, new): left to right, non-overlapping, one pass *)
RECURSIVE Replace(_, _, _)
Replace(s, old, new) ==
    IF s = <<>> THEN <<>>
    ELSE IF StartsWith(s, old)
         THEN new \o Replace(SubSeq(s, Len(old) + 1, Len(s)), old, new)
         ELSE <<Head(s)>> \o Replace(Tail(s), old, new)

(* fetch_cpcb_live.py line 108: the suffix list, in order *)
Suffixes ==
    << <<" ", "-", " ", "d", "p", "c", "c">>,
       <<" ", "-", " ", "c", "p", "c", "b">>,
       <<" ", "-", " ", "i", "m", "d">>,
       <<" ", "-", " ", "u", "p", "p", "c", "b">>,
       <<" ", "-", " ", "h", "s", "p", "c", "b">>,
       <<" ", "-", " ", "r", "s", "p", "c", "b">>,
       <<" ", "-", " ", "i", "i", "t", "m">> >>

RECURSIVE RemoveSuffixes(_, _)
RemoveSuffixes(s, k) ==
    IF k > Len(Suffixes) THEN s
    ELSE RemoveSuffixes(Replace(s, Suffixes[k], <<>>), k + 1)

normalize_station_name(name) ==
    LET n1 == Strip(Lower(name))
        n2 == RemoveSuffixes(n1, 1)
        n3 == Replace(Replace(n2, <<",">>, <<>>), <<" ", " ">>, <<" ">>)
    IN  Strip(n3)

(***************************************************************************)
(* difflib.SequenceMatcher(None, a, b).ratio() (Ratcliff/Obershelp, no     *)
(* junk; the autojunk heuristic needs len(b) >= 200).                      *)
(* Indices are Python's: blocks a[i:i+k], 0-based, hi exclusive.           *)
(***************************************************************************)
MatchingBlocks(a, b, alo, ahi, blo, bhi) ==
    {t \in (alo..(ahi - 1)) \X (blo..(bhi - 1)) \X (1..(ahi - alo)) :
        /\ t[1] + t[3] <= ahi
        /\ t[2] + t[3] <= bhi
        /\ \A d \in 0..(t[3] - 1) : a[t[1] + d + 1] = b[t[2] + d + 1]}

(* longest block; of those the earliest in a; of those the earliest in b *)
find_longest_match(a, b, alo, ahi, blo, bhi) ==
    LET C == MatchingBlocks(a, b, alo, ahi, blo, bhi)
    IN  IF C = {} THEN <<alo, blo, 0>>
        ELSE LET k  == Max({t[3] : t \in C})
                 i  == Min({t[1] : t \in {u \in C : u[3] = k}})
                 j  == Min({t[2] : t \in {u \in C : u[3] = k /\ u[1] = i}})
             IN  <<i, j, k>>

RECURSIVE MatchCount(_, _, _, _, _, _)
MatchCount(a, b, alo, ahi, blo, bhi) ==
    IF alo >= ahi \/ blo >= bhi THEN 0
    ELSE LET m == find_longest_match(a, b, alo, ahi, blo, bhi)
         IN  IF m[3] = 0 THEN 0
             ELSE m[3] + MatchCount(a, b, alo, m[1], blo, m[2])
                       + MatchCount(a, b, m[1] + m[3], ahi, m[2] + m[3], bhi)

(* ratio() as the fraction <<numerator, denominator>>; 1.0 when both empty *)
Ratio(a, b) ==
    IF Len(a) + Len(b) = 0 THEN <<1, 1>>
    ELSE <<2 * MatchCount(a, b, 0, Len(a), 0, Len(b)), Len(a) + Len(b)>>

(* fractions with positive denominators *)
FracGT(x, y) == x[1] * y[2] > y[1] * x[2]

(* fetch_cpcb_live.py line 130: the threshold 0.6 *)
Threshold == <<6, 10>>


(***************************************************************************)
(* Bounds and input sets                                                   *)
(***************************************************************************)
MaxTable == 3

NameABC == <<"a", "b", "c">>

NameABC_DPCC == <<"A", "b", "c", " ", "-", " ", "D", "P", "C", "C">>

NameABD == <<"a", "b", "d">>

NameABE == <<" ", "a", ",", "b", "e">>

NameLong == <<"a", "b", "c", "d", "e", "f", "g">>

NameXY == <<"x", " ", " ", "y">>

Names == {NameABC, NameABC_DPCC, NameABD, NameABE, NameLong, NameXY}

FileNames == {"f1", "f2"}

(***************************************************************************)
(* fetch_cpcb_live.find_matching_station                                   *)
(* The returned row is identified by its position in the table; 0 is None. *)
(***************************************************************************)
RECURSIVE FindLoop(_, _, _, _, _)
FindLoop(rss_normalized, our_stations, i, best_match, best_score) ==
    IF i > Len(our_stations) THEN best_match
    ELSE LET our_normalized == normalize_station_name(our_stations[i].station_name)
             score == Ratio(rss_normalized, our_normalized)
         IN  IF rss_normalized = our_normalized THEN i
             ELSE IF FracGT(score, best_score) /\ FracGT(score, Threshold)
                  THEN FindLoop(rss_normalized, our_stations, i + 1, i, score)
                  ELSE FindLoop(rss_normalized, our_stations, i + 1, best_match, best_score)

(* faulty variant: returns the first row whose score passes the threshold *)
RECURSIVE FindLoopFirstFit(_, _, _)
FindLoopFirstFit(rss_normalized, our_stations, i) ==
    IF i > Len(our_stations) THEN 0
    ELSE LET our_normalized == normalize_station_name(our_stations[i].station_name)
             score == Ratio(rss_normalized, our_normalized)
         IN  IF rss_normalized = our_normalized THEN i
             ELSE IF FracGT(score, Threshold) THEN i
                  ELSE FindLoopFirstFit(rss_normalized, our_stations, i + 1)

find_matching_station_firstfit(rss_name, our_stations) ==
    FindLoopFirstFit(normalize_station_name(rss_name), our_stations, 1)

(* faulty variant: the threshold test is >= 0.6 instead of > 0.6 *)
RECURSIVE FindLoopGE(_, _, _, _, _)
FindLoopGE(rss_normalized, our_stations, i, best_match, best_score) ==
    IF i > Len(our_stations) THEN best_match
    ELSE LET our_normalized == normalize_station_name(our_stations[i].station_name)
             score == Ratio(rss_normalized, our_normalized)
         IN  IF rss_normalized = our_normalized THEN i
             ELSE IF FracGT(score, best_score) /\ ~FracGT(Threshold, score)
                  THEN FindLoopGE(rss_normalized, our_stations, i + 1, i, score)
                  ELSE FindLoopGE(rss_normalized, our_stations, i + 1, best_match, best_score)

find_matching_station_ge(rss_name, our_stations) ==
    FindLoopGE(normalize_station_name(rss_name), our_stations, 1, 0, <<0, 1>>)

find_matching_station(rss_name, our_stations) ==
    FindLoop(normalize_station_name(rss_name), our_stations, 1, 0, <<0, 1>>)

(***************************************************************************)
(* Specification SpecMatch: find_matching_station applied to every feed    *)
(* name and metadata table within the bounds.                              *)
(***************************************************************************)
MatchInit ==
    /\ m_pc = "call"
    /\ m_rss_name \in Names
    /\ m_stations \in SeqUpTo([station_name : Names, filename : {"f1"}], MaxTable)
    /\ m_result = 0

MatchCall ==
    /\ m_pc = "call"
    /\ m_result' = find_matching_station(m_rss_name, m_stations)
    /\ m_pc' = "done"
    /\ UNCHANGED <<m_rss_name, m_stations>>
    /\ UNCHANGED <<ingestVars, backfillVars, harnessVars, aggregatorVars,
                 engineVars, parseVars, continuousVars, rerunVars>>

(* helpers for the claims about matching *)
NormRss == normalize_station_name(m_rss_name)

NormRow(i) == normalize_station_name(m_stations[i].station_name)

RowScore(i) == Ratio(NormRss, NormRow(i))

ExactRows == {i \in 1..Len(m_stations) : NormRow(i) = NormRss}

AboveThreshold == {i \in 1..Len(m_stations) : FracGT(RowScore(i), Threshold)}

TopRows == {i \in AboveThreshold : \A j \in AboveThreshold : ~FracGT(RowScore(j), RowScore(i))}

(* C5: whenever some metadata row's normalized name equals the normalized   *)
(* feed name, find_matching_station returns a row with that normalized name,*)
(* wherever the row stands and whatever the rows before it score.           *)
C5_ExactMatchFirst ==
    (m_pc = "done" /\ ExactRows # {}) =>
        (m_result # 0 /\ NormRow(m_result) = NormRss)

(* an exact row stands behind a row that scores above the threshold *)
C5_Witness ==
    /\ m_pc = "done"
    /\ \E i \in ExactRows : \E j \in AboveThreshold : j < i /\ j \notin ExactRows
    /\ m_result \in ExactRows

(* C6: with no exact match the result is the earliest row of highest ratio  *)
(* among those strictly above 0.6, and None when there is none; a row at or *)
(* below 0.6 is never returned.                                             *)
C6_BestAboveThreshold ==
    (m_pc = "done" /\ ExactRows = {}) =>
        IF AboveThreshold = {} THEN m_result = 0
        ELSE m_result = Min(TopRows)

(* a tie above the threshold next to a row scoring exactly 0.6 *)
C6_Witness ==
    /\ m_pc = "done"
    /\ ExactRows = {}
    /\ Cardinality(TopRows) >= 2
    /\ m_result = Min(TopRows)
    /\ \E i \in 1..Len(m_stations) : RowScore(i)[1] * 10 = 6 * RowScore(i)[2]

(* no exact match and nothing above the threshold: None *)
C6_WitnessNone ==
    /\ m_pc = "done"
    /\ m_stations # <<>>
    /\ ExactRows = {}
    /\ AboveThreshold = {}
    /\ m_result = 0


(***************************************************************************)
(* The live ingester: per-station pollutant files                          *)
(***************************************************************************)
MaxTime == 2

MaxFeed == 2

(* a CSV cell: <<v>> holds the number v, <<>> is the empty cell (NaN) *)
NaN == <<>>

Cell(v) == <<v>>

(* fetch_cpcb_live.py lines 27-35: feed pollutant id -> CSV column *)
POLLUTANT_MAP ==
    [k \in {"PM2.5", "PM10", "NO2", "SO2", "CO", "OZONE", "NH3"} |->
        CASE k = "PM2.5" -> "PM25"
          [] k = "OZONE" -> "O3"
          [] OTHER -> k]

CsvColumns == {POLLUTANT_MAP[k] : k \in DOMAIN POLLUTANT_MAP}

(* pd.to_datetime(strftime("%Y-%m-%d %H:%M:%S") + "+05:30"): the naive     *)
(* feed time t (in hours) becomes a timezone-aware timestamp               *)
UtcOffsetMinutes == 330

ToLocalTime(t) == [wall |-> t, utcoffset |-> UtcOffsetMinutes]

(* timezone-aware timestamps compare by instant *)
Instant(x) == x.wall * 60 - x.utcoffset

SameTime(x, y) == Instant(x) = Instant(y)

(* the parsed pollutant maps a feed entry may carry *)
PollPM25Zero == [k \in {"PM2.5", "NO2"} |-> IF k = "PM2.5" THEN 0 ELSE 7]

PollPM10 == [k \in {"PM10", "OZONE", "AQI"} |-> IF k = "PM10" THEN 5 ELSE 3]

PollNoPM == [k \in {"NO2", "CO"} |-> 7]

PollutantMaps == {PollPM25Zero, PollPM10, PollNoPM}

FeedTimes == 1..MaxTime

FeedNames == {NameABC, NameABD, NameXY}

FeedEntries == [name : FeedNames, timestamp : FeedTimes, pollutants : PollutantMaps]

IngestTable ==
    << [station_name |-> NameABC_DPCC, filename |-> "f1"],
       [station_name |-> NameABD, filename |-> "f2"] >>

OldRow(t) ==
    [time |-> ToLocalTime(t),
     vals |-> [c \in CsvColumns |-> IF c = "PM25" THEN Cell(9) ELSE NaN]]

(* main, line 198: stations_metadata.csv as loaded; the ingester never   *)
(* writes it                                                             *)
our_stations == IngestTable

(* main, line 222: find_matching_station(rss_name, our_stations) for every *)
(* station id the feed may carry                                           *)
MatchOf == [n \in FeedNames |-> find_matching_station(n, our_stations)]

(* df.sort_values("Local Time") *)
RECURSIVE InsertSorted(_, _)
InsertSorted(row, s) ==
    IF s = <<>> THEN <<row>>
    ELSE IF Instant(row.time) < Instant(Head(s).time)
         THEN <<row>> \o s
         ELSE <<Head(s)>> \o InsertSorted(row, Tail(s))

RECURSIVE SortByTime(_)
SortByTime(s) ==
    IF s = <<>> THEN <<>>
    ELSE InsertSorted(s[Len(s)], SortByTime(SubSeq(s, 1, Len(s) - 1)))

(* faulty variant: the existing-timestamp check never finds a row *)
TimestampExistsNever(df, ts) == FALSE

(* line 158: len(df[df["Local Time"] == pd.to_datetime(timestamp_str)]) > 0 *)
TimestampExists(df, ts) == \E i \in 1..Len(df) : SameTime(df[i].time, ts)

(* faulty variant: the row's time is written without the +05:30 offset *)
NewRowNaive(rss_data) ==
    [time |-> [wall |-> rss_data.timestamp, utcoffset |-> 0],
     vals |-> [c \in CsvColumns |->
                 IF \E k \in DOMAIN POLLUTANT_MAP :
                        POLLUTANT_MAP[k] = c /\ k \in DOMAIN rss_data.pollutants
                 THEN Cell(rss_data.pollutants[
                        CHOOSE k \in DOMAIN POLLUTANT_MAP : POLLUTANT_MAP[k] = c])
                 ELSE NaN]]

(* lines 163-168: the new row, pollutants mapped to CSV columns *)
NewRow(rss_data) ==
    [time |-> ToLocalTime(rss_data.timestamp),
     vals |-> [c \in CsvColumns |->
                 IF \E k \in DOMAIN POLLUTANT_MAP :
                        POLLUTANT_MAP[k] = c /\ k \in DOMAIN rss_data.pollutants
                 THEN Cell(rss_data.pollutants[
                        CHOOSE k \in DOMAIN POLLUTANT_MAP : POLLUTANT_MAP[k] = c])
                 ELSE NaN]]

(* line 171: "PM25" not in new_row and "PM10" not in new_row *)
HasPM(rss_data) ==
    "PM2.5" \in DOMAIN rss_data.pollutants \/ "PM10" \in DOMAIN rss_data.pollutants

(* faulty variant: the frame written back holds only the new row *)
AppendRowOnlyNew(df, new_row) == <<new_row>>

(* lines 176-179: concat, then sort by "Local Time" *)
AppendRow(df, new_row) == SortByTime(df \o <<new_row>>)

(* faulty variant: the row is written before the PM check turns it down *)
update_station_csv_written_first(station_row, rss_data, fs) ==
    LET file == fs[station_row.filename]
        ts == ToLocalTime(rss_data.timestamp)
        written == [fs EXCEPT ![station_row.filename].rows =
                       AppendRow(file.rows, NewRow(rss_data))]
    IN  IF file.status = "missing" THEN [ret |-> "False", files |-> fs]
        ELSE IF file.status = "unreadable" THEN [ret |-> "False", files |-> fs]
        ELSE IF TimestampExists(file.rows, ts) THEN [ret |-> "False", files |-> fs]
        ELSE IF ~HasPM(rss_data) THEN [ret |-> "False", files |-> written]
        ELSE [ret |-> "True", files |-> written]

(* update_station_csv: the value returned and the file as left on disk *)
update_station_csv(station_row, rss_data, fs) ==
    LET file == fs[station_row.filename]
        ts == ToLocalTime(rss_data.timestamp)
    IN  IF file.status = "missing" THEN [ret |-> "False", files |-> fs]
        ELSE IF file.status = "unreadable" THEN [ret |-> "False", files |-> fs]
        ELSE IF TimestampExists(file.rows, ts) THEN [ret |-> "False", files |-> fs]
        ELSE IF ~HasPM(rss_data) THEN [ret |-> "False", files |-> fs]
        ELSE [ret |-> "True",
              files |-> [fs EXCEPT ![station_row.filename].rows =
                            AppendRow(file.rows, NewRow(rss_data))]]

InitialFiles ==
    {fs \in [FileNames -> [status : {"ok", "missing", "unreadable"},
                           rows : {<<>>, <<OldRow(1)>>, <<OldRow(MaxTime)>>}]] :
        /\ fs["f1"].status = "ok"
        /\ fs["f2"].status # "ok" => fs["f2"].rows = <<>>}

IngestInit ==
    /\ files \in InitialFiles
    /\ f_pc = "idle"
    /\ f_seen = {}
    /\ f_entry = <<>>
    /\ matched = 0
    /\ updated = 0
    /\ f_ret = None

(* main, lines 187-219: load the metadata, fetch and parse the feed.  The  *)
(* parsed feed is a dict keyed by station id of at most MaxFeed entries;   *)
(* its entries are drawn when the loop reaches them.                       *)
MainFetch ==
    /\ f_pc = "idle"
    /\ f_pc' = "loop"
    /\ f_seen' = {}
    /\ f_entry' = <<>>
    /\ matched' = 0
    /\ updated' = 0
    /\ f_ret' = None
    /\ UNCHANGED files
    /\ UNCHANGED <<matchVars, backfillVars, harnessVars, aggregatorVars,
                 engineVars, parseVars, continuousVars, rerunVars>>

(* main, lines 194-196 and 203-205: no metadata file, or no feed: return *)
MainAbort ==
    /\ f_pc = "idle"
    /\ f_ret' = None
    /\ f_entry' = <<>>
    /\ UNCHANGED <<files, f_pc, f_seen, matched, updated>>
    /\ UNCHANGED <<matchVars, backfillVars, harnessVars, aggregatorVars,
                 engineVars, parseVars, continuousVars, rerunVars>>

(* main, lines 221-236: one iteration of the loop over the feed *)
MainStep ==
    /\ f_pc = "loop"
    /\ Cardinality(f_seen) < MaxFeed
    /\ \E rss_name \in FeedNames \ f_seen :
        LET match == MatchOf[rss_name]
        IN  \E rss_data \in {e \in FeedEntries : e.name = rss_name} :
              /\ f_seen' = f_seen \cup {rss_name}
              /\ f_entry' = <<rss_data>>
              /\ IF match # 0
                 THEN LET r == update_station_csv(our_stations[match], rss_data, files)
                      IN  /\ matched' = matched + 1
                          /\ files' = r.files
                          /\ f_ret' = r.ret
                          /\ updated' = IF r.ret = "True" THEN updated + 1 ELSE updated
                 ELSE /\ f_ret' = None
                      /\ UNCHANGED <<matched, updated, files>>
    /\ UNCHANGED f_pc
    /\ UNCHANGED <<matchVars, backfillVars, harnessVars, aggregatorVars,
                 engineVars, parseVars, continuousVars, rerunVars>>

(* main, lines 238-243: the feed is exhausted; the summary ends the run *)
MainSummary ==
    /\ f_pc = "loop"
    /\ f_pc' = "idle"
    /\ UNCHANGED <<files, f_seen, f_entry, matched, updated, f_ret>>
    /\ UNCHANGED <<matchVars, backfillVars, harnessVars, aggregatorVars,
                 engineVars, parseVars, continuousVars, rerunVars>>

IngestNext == MainFetch \/ MainAbort \/ MainStep \/ MainSummary

RowsOf(fs, fn) == fs[fn].rows

(* C1: no station file ever holds two rows with the same 'Local Time'.      *)
C1_NoDuplicateLocalTime ==
    \A fn \in FileNames :
        \A i, j \in 1..Len(RowsOf(files, fn)) :
            i # j => ~SameTime(RowsOf(files, fn)[i].time, RowsOf(files, fn)[j].time)

(* the entry main has just handled, and the metadata row it matched *)
LastEntry == f_entry[1]

LastMatch == MatchOf[LastEntry.name]

(* an entry with PM data was turned down because its timestamp is on file *)
C1_Witness ==
    /\ f_entry # <<>>
    /\ f_ret = "False"
    /\ HasPM(LastEntry)
    /\ LastMatch # 0
    /\ files[our_stations[LastMatch].filename].status = "ok"
    /\ Len(RowsOf(files, our_stations[LastMatch].filename)) >= 2
    /\ TimestampExists(RowsOf(files, our_stations[LastMatch].filename),
                       ToLocalTime(LastEntry.timestamp))

(* the row the feed entry e stands for: its timestamp, its mapped values *)
IsRowOf(row, e) ==
    /\ SameTime(row.time, ToLocalTime(e.timestamp))
    /\ \A k \in DOMAIN POLLUTANT_MAP :
          row.vals[POLLUTANT_MAP[k]] =
              IF k \in DOMAIN e.pollutants THEN Cell(e.pollutants[k]) ELSE NaN

(* C2: a call that returns True adds exactly one row, the feed's timestamp  *)
(* with the mapped values, to one file; no step removes or alters a row.    *)
C2_AppendOnly ==
    [][ /\ \A fn \in FileNames :
              \A i \in 1..Len(RowsOf(files, fn)) :
                  \E j \in 1..Len(RowsOf(files', fn)) :
                      RowsOf(files', fn)[j] = RowsOf(files, fn)[i]
        /\ (f_pc = "loop" /\ f_seen' # f_seen /\ f_ret' = "True") =>
              \E fn \in FileNames :
                  /\ Len(RowsOf(files', fn)) = Len(RowsOf(files, fn)) + 1
                  /\ \E j \in 1..Len(RowsOf(files', fn)) :
                        IsRowOf(RowsOf(files', fn)[j], f_entry'[1])
                  /\ \A g \in FileNames \ {fn} : files'[g] = files[g]
      ]_ingestVars

(* a row was added in front of a row that was already on file *)
C2_Witness ==
    /\ f_entry # <<>>
    /\ f_ret = "True"
    /\ \E fn \in FileNames :
          /\ Len(RowsOf(files, fn)) >= 2
          /\ IsRowOf(RowsOf(files, fn)[1], LastEntry)
          /\ RowsOf(files, fn)[2] = OldRow(MaxTime)

(* C12: a rejected update changes nothing.  A call that returns False (file  *)
(* missing or unreadable, timestamp on file, neither PM2.5 nor PM10 in the   *)
(* entry) leaves every station file as it was, and a row that is written     *)
(* carries PM25 or PM10.                                                     *)
C12_RejectedUpdateChangesNothing ==
    [][(f_pc = "loop" /\ f_seen' # f_seen) =>
          /\ f_ret' = "False" => files' = files
          /\ files' # files =>
                /\ f_ret' = "True"
                /\ \E fn \in FileNames :
                      \E j \in 1..Len(RowsOf(files', fn)) :
                          /\ IsRowOf(RowsOf(files', fn)[j], f_entry'[1])
                          /\ \/ RowsOf(files', fn)[j].vals["PM25"] # NaN
                             \/ RowsOf(files', fn)[j].vals["PM10"] # NaN
      ]_ingestVars

(* an entry without PM2.5 and PM10 was turned down, though its file is    *)
(* readable and has no row for its timestamp                              *)
C12_Witness ==
    /\ f_entry # <<>>
    /\ f_ret = "False"
    /\ ~HasPM(LastEntry)
    /\ LastMatch # 0
    /\ files[our_stations[LastMatch].filename].status = "ok"
    /\ ~TimestampExists(RowsOf(files, our_stations[LastMatch].filename),
                        ToLocalTime(LastEntry.timestamp))

(***************************************************************************)
(* The meteorology backfill: wind_stations.csv                             *)
(* Timestamps are whole hours.                                             *)
(***************************************************************************)
MaxInitTime == 1

MaxFrameLen == 2

HoursPerDay == 24

(* the rows of stations_metadata.csv that main iterates over *)
stations == << [station_id |-> 1], [station_id |-> 2] >>

(* what the clock may show when main runs *)
NowTimes == {MaxInitTime + 12, MaxInitTime + 30, 8 * HoursPerDay, MaxInitTime + 200}

(* rows already on file carry OldVal, rows from the API carry ApiVal *)
OldVal == 1

ApiVal == 2

WindKeys == (0..MaxInitTime) \X {stations[i].station_id : i \in 1..Len(stations)}

KeyOf(row) == <<row.timestamp, row.station_id>>

(* get_station_timestamps, line 53: df['timestamp'].max() *)
GlobalMax(rows) == Max({rows[i].timestamp : i \in 1..Len(rows)})

(* get_last_timestamp is called by main (line 124) and defined nowhere in   *)
(* the module; per the module docstring it yields the last recorded         *)
(* timestamp of wind_stations.csv, None for a missing or empty file         *)
get_last_timestamp(file) ==
    IF file.status # "ok" \/ file.rows = <<>> THEN <<>>
    ELSE <<GlobalMax(file.rows)>>

(* line 138: (datetime.now() - last_ts).days, a floor division *)
DaysGap(t_now, t_last) == (t_now - t_last) \div HoursPerDay

(* faulty variant: rows at the last timestamp are kept as well *)
FilterNewInclusive(df, t_last) == SelectSeq(df, LAMBDA r : r.timestamp >= t_last)

(* line 172: df[df['timestamp'] > last_ts] *)
FilterNew(df, t_last) == SelectSeq(df, LAMBDA r : r.timestamp > t_last)

(* faulty variant: nothing is dropped *)
DropDuplicatesNone(df) == df

(* line 197: drop_duplicates(subset=['timestamp', 'station_id'], keep='last') *)
DropDuplicates(df) ==
    LET keep == {i \in 1..Len(df) :
                    \A j \in (i + 1)..Len(df) : KeyOf(df[j]) # KeyOf(df[i])}
        RECURSIVE Pick(_)
        Pick(i) == IF i > Len(df) THEN <<>>
                   ELSE (IF i \in keep THEN <<df[i]>> ELSE <<>>) \o Pick(i + 1)
    IN  Pick(1)

RowBefore(r1, r2) ==
    \/ r1.station_id < r2.station_id
    \/ r1.station_id = r2.station_id /\ r1.timestamp < r2.timestamp

RECURSIVE InsertWind(_, _)
InsertWind(row, s) ==
    IF s = <<>> THEN <<row>>
    ELSE IF RowBefore(row, Head(s)) THEN <<row>> \o s
         ELSE <<Head(s)>> \o InsertWind(row, Tail(s))

(* line 198: sort_values(['station_id', 'timestamp']) *)
RECURSIVE SortWind(_)
SortWind(s) ==
    IF s = <<>> THEN <<>>
    ELSE InsertWind(s[Len(s)], SortWind(SubSeq(s, 1, Len(s) - 1)))

(* lines 188-198: concat the frames, append to the file's rows, deduplicate *)
MergeWind(existing_df, frames) ==
    SortWind(DropDuplicates(existing_df \o Concat(frames)))

(* fetch_station_wind, lines 88-103: the frame built from the API's hourly  *)
(* times, every row stamped with the station's id                           *)
FrameOf(station_id, times) ==
    [i \in 1..Len(times) |->
        [timestamp |-> times[i], station_id |-> station_id, val |-> ApiVal]]

(* 00:00 of the day of t *)
MidnightOf(t) == (t \div HoursPerDay) * HoursPerDay

(* line 149: the forecast API is used for a gap of at most this many days *)
ForecastMaxGapDays == 7

(* line 76: params["past_days"] *)
PastDays == 7

(* the forecast API with past_days: hours from 00:00 of the day that lies  *)
(* past_days before today                                                  *)
ForecastWindowStart(t_now) == MidnightOf(t_now) - PastDays * HoursPerDay

(* the archive API with start_date, line 134: hours from 00:00 of the day  *)
(* of the hour after the last recorded one                                 *)
ArchiveWindowStart(t_last) == MidnightOf(t_last + 1)

WindowStart(forecast, t_last, t_now) ==
    IF forecast THEN ForecastWindowStart(t_now) ELSE ArchiveWindowStart(t_last)

(* the hourly times a response may list, given the window main asked for *)
ResponseTimes(forecast, t_last, t_now) ==
    {t \in {t_last, t_last + 1, t_now} : t >= WindowStart(forecast, t_last, t_now)}

(* what the request of fetch_station_wind may meet *)
FetchResponses(forecast, t_last, t_now) ==
    {[kind |-> "request_error", times |-> <<>>], [kind |-> "no_hourly", times |-> <<>>]} \cup
    {[kind |-> "hourly", times |-> ts] :
        ts \in SeqUpTo(ResponseTimes(forecast, t_last, t_now), MaxFrameLen)}

(* faulty variant: a failed request is not caught *)
fetch_station_wind_uncaught(station_id, response) ==
    IF response.kind = "request_error" THEN [raised |-> TRUE, df |-> <<>>]
    ELSE IF response.kind = "no_hourly" THEN [raised |-> FALSE, df |-> <<>>]
    ELSE [raised |-> FALSE, df |-> <<FrameOf(station_id, response.times)>>]

(* fetch_station_wind, lines 80-107: df is <<>> for None, <<frame>> else *)
fetch_station_wind(station_id, response) ==
    IF response.kind = "request_error" THEN [raised |-> FALSE, df |-> <<>>]
    ELSE IF response.kind = "no_hourly" THEN [raised |-> FALSE, df |-> <<>>]
    ELSE [raised |-> FALSE, df |-> <<FrameOf(station_id, response.times)>>]

InitialWindFiles ==
    {[status |-> "missing", rows |-> <<>>]} \cup
    {[status |-> "ok",
      rows |-> SortWind(
          LET RECURSIVE Rows(_)
              Rows(K) == IF K = {} THEN <<>>
                         ELSE LET k == CHOOSE x \in K : TRUE
                              IN  <<[timestamp |-> k[1], station_id |-> k[2],
                                     val |-> OldVal]>> \o Rows(K \ {k})
          IN  Rows(K0))] : K0 \in SUBSET WindKeys}

BackfillInit ==
    /\ b_pc = "start"
    /\ b_meta \in BOOLEAN
    /\ wind_file \in InitialWindFiles
    /\ now \in NowTimes
    /\ last_ts = <<>>
    /\ use_forecast = FALSE
    /\ b_idx = 1
    /\ all_data = <<>>
    /\ b_skipped = {}
    /\ b_failed = {}
    /\ b_wrote = FALSE

(* main, lines 115-121: load the stations *)
BackfillLoad ==
    /\ b_pc = "start"
    /\ b_pc' = IF b_meta THEN "get_last" ELSE "done"
    /\ UNCHANGED <<b_meta, wind_file, now, last_ts, use_forecast, b_idx,
                   all_data, b_skipped, b_failed, b_wrote>>
    /\ UNCHANGED <<matchVars, ingestVars, harnessVars, aggregatorVars,
                 engineVars, parseVars, continuousVars, rerunVars>>

(* main, line 124, as written: the name get_last_timestamp is not defined,  *)
(* the call raises NameError and the run ends                               *)
BackfillGetLastNameError ==
    /\ b_pc = "get_last"
    /\ b_pc' = "error"
    /\ UNCHANGED <<b_meta, wind_file, now, last_ts, use_forecast, b_idx,
                   all_data, b_skipped, b_failed, b_wrote>>
    /\ UNCHANGED <<matchVars, ingestVars, harnessVars, aggregatorVars,
                 engineVars, parseVars, continuousVars, rerunVars>>

(* main, line 124, with get_last_timestamp as the docstring describes it *)
BackfillGetLast ==
    /\ b_pc = "get_last"
    /\ last_ts' = get_last_timestamp(wind_file)
    /\ b_pc' = "plan"
    /\ UNCHANGED <<b_meta, wind_file, now, use_forecast, b_idx,
                   all_data, b_skipped, b_failed, b_wrote>>
    /\ UNCHANGED <<matchVars, ingestVars, harnessVars, aggregatorVars,
                 engineVars, parseVars, continuousVars, rerunVars>>

(* main, lines 126-158: nothing on file, or up to date: return; otherwise   *)
(* choose the API and start the loop                                        *)
BackfillPlan ==
    /\ b_pc = "plan"
    /\ IF last_ts = <<>> THEN b_pc' = "done" /\ UNCHANGED use_forecast
       ELSE IF DaysGap(now, last_ts[1]) <= 0
            THEN b_pc' = "done" /\ UNCHANGED use_forecast
            ELSE /\ use_forecast' = (DaysGap(now, last_ts[1]) <= ForecastMaxGapDays)
                 /\ b_pc' = "fetch"
    /\ b_idx' = 1
    /\ all_data' = <<>>
    /\ UNCHANGED <<b_meta, wind_file, now, last_ts, b_skipped, b_failed, b_wrote>>
    /\ UNCHANGED <<matchVars, ingestVars, harnessVars, aggregatorVars,
                 engineVars, parseVars, continuousVars, rerunVars>>

(* main, lines 160-181: one station; fetch_station_wind gives None (a       *)
(* request error, or no 'hourly' section) or a frame                        *)
BackfillFetch ==
    /\ b_pc = "fetch"
    /\ b_idx <= Len(stations)
    /\ \E response \in FetchResponses(use_forecast, last_ts[1], now) :
          LET station_id == stations[b_idx].station_id
              r == fetch_station_wind(station_id, response)
          IN  IF r.raised
              THEN /\ b_pc' = "error"
                   /\ UNCHANGED <<b_idx, all_data, b_skipped, b_failed>>
              ELSE /\ b_pc' = b_pc
                   /\ b_idx' = b_idx + 1
                   /\ IF r.df # <<>> /\ Len(r.df[1]) > 0
                      THEN LET new == FilterNew(r.df[1], last_ts[1])
                           IN  /\ all_data' = IF Len(new) > 0 THEN Append(all_data, new)
                                               ELSE all_data
                               /\ UNCHANGED <<b_skipped, b_failed>>
                      ELSE /\ b_skipped' = b_skipped \cup {station_id}
                           /\ b_failed' = IF r.df = <<>> THEN b_failed \cup {station_id}
                                          ELSE b_failed
                           /\ UNCHANGED all_data
    /\ UNCHANGED <<b_meta, wind_file, now, last_ts, use_forecast, b_wrote>>
    /\ UNCHANGED <<matchVars, ingestVars, harnessVars, aggregatorVars,
                 engineVars, parseVars, continuousVars, rerunVars>>

(* main, lines 183-201: nothing new: return; otherwise merge and save *)
BackfillMerge ==
    /\ b_pc = "fetch"
    /\ b_idx > Len(stations)
    /\ IF all_data = <<>>
       THEN UNCHANGED <<wind_file, b_wrote>>
       ELSE /\ wind_file' = [wind_file EXCEPT !.rows = MergeWind(wind_file.rows, all_data)]
            /\ b_wrote' = TRUE
    /\ b_pc' = "done"
    /\ UNCHANGED <<b_meta, now, last_ts, use_forecast, b_idx, all_data, b_skipped,
                   b_failed>>
    /\ UNCHANGED <<matchVars, ingestVars, harnessVars, aggregatorVars,
                 engineVars, parseVars, continuousVars, rerunVars>>

BackfillNext ==
    BackfillLoad \/ BackfillGetLast \/ BackfillPlan \/ BackfillFetch \/ BackfillMerge

BackfillNextAsWritten == BackfillLoad \/ BackfillGetLastNameError

NoDuplicateKeys(rows) ==
    \A i, j \in 1..Len(rows) : i # j => KeyOf(rows[i]) # KeyOf(rows[j])

(* C3: a written wind_stations.csv holds at most one row for each           *)
(* (timestamp, station_id) pair.                                            *)
C3_WindDeduplicated == b_wrote => NoDuplicateKeys(wind_file.rows)

(* the fetched frames brought the same (timestamp, station_id) twice *)
C3_Witness ==
    /\ b_wrote
    /\ ~NoDuplicateKeys(Concat(all_data))
    /\ Len(wind_file.rows) >= 2

C7_NoErrorBeforeFetch ==
    (/\ b_meta
     /\ wind_file.status = "ok"
     /\ wind_file.rows # <<>>
     /\ DaysGap(now, GlobalMax(wind_file.rows)) >= 1) => b_pc # "error"

(* C14: whenever main selects the forecast API, the window it requests      *)
(* (past_days = 7) begins no later than the first hour after the last       *)
(* recorded timestamp, so that no hour up to now is left missing.           *)
C14_ForecastWindowReachesLast ==
    (b_pc = "fetch" /\ use_forecast) => ForecastWindowStart(now) <= last_ts[1] + 1

(* C16: one station's fetch failure does not abort the backfill.  A fetch    *)
(* that fails returns None; main marks the station skipped and goes through  *)
(* the remaining stations, and the rows fetched for the other stations are   *)
(* merged and written.                                                       *)
C16_FetchFailureSkipsStation ==
    /\ b_pc # "error"
    /\ b_failed \subseteq b_skipped
    /\ (b_pc = "done" /\ b_failed # {}) => b_idx = Len(stations) + 1
    /\ (b_pc = "done" /\ all_data # <<>>) =>
          /\ b_wrote
          /\ \A i \in 1..Len(Concat(all_data)) :
                \E j \in 1..Len(wind_file.rows) :
                    wind_file.rows[j] = Concat(all_data)[i]

(* the first station's fetch failed and the second station's rows were written *)
C16_Witness ==
    /\ b_pc = "done"
    /\ b_failed = {stations[1].station_id}
    /\ b_wrote
    /\ \E j \in 1..Len(wind_file.rows) :
          /\ wind_file.rows[j].station_id = stations[2].station_id
          /\ wind_file.rows[j].val = ApiVal
          /\ wind_file.rows[j].timestamp > last_ts[1]

(***************************************************************************)
(* The validation harness: run_test                                        *)
(* Percentages are held in tenths of a percent.                            *)
(***************************************************************************)
Tenths(p) == 10 * p

(* the sources the modelled test cases name *)
HarnessSources == {"stubble_burning", "traffic"}

Levels == {"Low", "Medium", "High"}

Percentages == {Tenths(0), Tenths(12), 125, Tenths(15), Tenths(30)}

(* one entry of the response's 'contributions' *)
Contributions == [percentage : Percentages, level : Levels]

(* a response: each source is missing (<<>>) or present (<<c>>) *)
Responses == [HarnessSources -> {<<>>} \cup {<<c>> : c \in Contributions}]

(* the expected_high and expected_low lists of a test case *)
ExpectedLists == {<<>>} \cup {<<x>> : x \in HarnessSources}
                        \cup {<<"stubble_burning", "traffic">>}

TestCases == [expected_high : ExpectedLists, expected_low : ExpectedLists]

(* lines 383-385, 395-396: contributions.get(expected, {}), then            *)
(* .get('percentage', 0) and .get('level', '')                              *)
PctOf(contributions, source) ==
    IF contributions[source] = <<>> THEN 0 ELSE contributions[source][1].percentage

LevelOf(contributions, source) ==
    IF contributions[source] = <<>> THEN "" ELSE contributions[source][1].level

(* faulty variant: the percentage has to exceed 15 *)
ElevatedCheckStrict(contributions, source) ==
    \/ LevelOf(contributions, source) \in {"High", "Medium"}
    \/ PctOf(contributions, source) > Tenths(15)

(* line 387: level in ['High', 'Medium'] or pct >= 15 *)
ElevatedCheck(contributions, source) ==
    \/ LevelOf(contributions, source) \in {"High", "Medium"}
    \/ PctOf(contributions, source) >= Tenths(15)

(* faulty variant: anything up to 15 passes as low *)
LowCheckLoose(contributions, source) == PctOf(contributions, source) <= Tenths(15)

(* line 398: pct <= 12 *)
LowCheck(contributions, source) == PctOf(contributions, source) <= Tenths(12)

(* lines 382-391: the loop over expected_high, carrying 'passed' *)
RECURSIVE HighLoop(_, _, _)
HighLoop(contributions, expected, passed) ==
    IF expected = <<>> THEN passed
    ELSE HighLoop(contributions, Tail(expected),
                  IF ElevatedCheck(contributions, Head(expected)) THEN passed ELSE FALSE)

(* lines 394-402: the loop over expected_low *)
RECURSIVE LowLoop(_, _, _)
LowLoop(contributions, expected, passed) ==
    IF expected = <<>> THEN passed
    ELSE LowLoop(contributions, Tail(expected),
                 IF LowCheck(contributions, Head(expected)) THEN passed ELSE FALSE)

run_test(test_case, api_ok, contributions) ==
    IF ~api_ok THEN FALSE
    ELSE LowLoop(contributions, test_case.expected_low,
                 HighLoop(contributions, test_case.expected_high, TRUE))

HarnessInit ==
    /\ t_pc = "call"
    /\ t_case \in TestCases
    /\ t_api_ok \in BOOLEAN
    /\ t_response \in Responses
    /\ t_api_ok = FALSE => t_response = [s \in HarnessSources |-> <<>>]
    /\ t_passed = FALSE

RunTest ==
    /\ t_pc = "call"
    /\ t_passed' = run_test(t_case, t_api_ok, t_response)
    /\ t_pc' = "done"
    /\ UNCHANGED <<t_case, t_api_ok, t_response>>
    /\ UNCHANGED <<matchVars, ingestVars, backfillVars, aggregatorVars,
                 engineVars, parseVars, continuousVars, rerunVars>>

(* what the claims call elevated and low, on the response as received *)
IsElevated(source) ==
    \/ t_response[source] # <<>> /\ t_response[source][1].level \in {"High", "Medium"}
    \/ t_response[source] # <<>> /\ t_response[source][1].percentage >= 150

IsLow(source) ==
    \/ t_response[source] = <<>>
    \/ t_response[source][1].percentage <= 120

C8_WitnessFail ==
    /\ t_pc = "done"
    /\ ~t_passed
    /\ t_api_ok
    /\ \E s \in Range(t_case.expected_low) : ~IsLow(s)

(* C9 as claimed: for every response and source the elevated check and the  *)
(* low check never both succeed.                                            *)
C9_NeverBoth ==
    t_pc = "done" =>
        \A s \in HarnessSources :
            ~(ElevatedCheck(t_response, s) /\ LowCheck(t_response, s))

(* the level goes with the percentage as the Aggregator assigns it: High or *)
(* Medium only from 15 upwards                                              *)
LevelFollowsPercentage(source) ==
    LevelOf(t_response, source) \in {"High", "Medium"} =>
        PctOf(t_response, source) >= 150

(* C9, amended: for a contribution whose level is High or Medium only when  *)
(* its percentage is at least 15, the elevated check and the low check      *)
(* never both succeed.                                                      *)
C9_NeverBothWhenLevelFollows ==
    t_pc = "done" =>
        \A s \in HarnessSources :
            LevelFollowsPercentage(s) =>
                ~(ElevatedCheck(t_response, s) /\ LowCheck(t_response, s))

(* a Medium source at 15 passes as elevated and not as low; one at 12.5 as  *)
(* neither                                                                  *)
C9_Witness ==
    /\ t_pc = "done"
    /\ t_api_ok
    /\ \E s \in HarnessSources :
          /\ PctOf(t_response, s) = 150
          /\ LevelOf(t_response, s) = "Medium"
          /\ ElevatedCheck(t_response, s)
          /\ ~LowCheck(t_response, s)
    /\ \E s \in HarnessSources :
          /\ PctOf(t_response, s) = 125
          /\ LevelOf(t_response, s) = "Low"
          /\ ~ElevatedCheck(t_response, s)
          /\ ~LowCheck(t_response, s)

(***************************************************************************)
(* The Aggregator (design document, 4.4): prior x factor, renormalised.    *)
(* Factors are held in tenths; percentages in units of 1/Resolution of a   *)
(* percent, rounded down, which is coarser than the double-precision       *)
(* arithmetic of an implementation.                                        *)
(***************************************************************************)
Resolution == 1000

(* the clamp of the modulation factor, [0.1, 3.0], and the neutral 1.0 *)
Factors == {1, 10, 30}

(* catalogs of priors; each sums to 100 *)
Catalogs == {<<20, 20, 20, 20, 20>>, <<30, 25, 25, 16, 4>>, <<96, 1, 1, 1, 1>>}

(* step 1: weighted = prior_percentage x modulation_factor *)
Weighted(priors, factors) == [i \in 1..Len(priors) |-> priors[i] * factors[i]]

(* faulty variant: the weighted values are divided by the sum of the priors *)
AggregateNoRenormalise(priors, factors) ==
    [i \in 1..Len(priors) |->
        (100 * Resolution * Weighted(priors, factors)[i]) \div (10 * SumSeq(priors))]

(* step 2: percentage = 100 x weighted / sum(all weighted) *)
Aggregate(priors, factors) ==
    [i \in 1..Len(priors) |->
        (100 * Resolution * Weighted(priors, factors)[i])
            \div SumSeq(Weighted(priors, factors))]

AggregatorInit ==
    /\ a_pc = "call"
    /\ a_priors \in Catalogs
    /\ a_factors \in [1..Len(a_priors) -> Factors]
    /\ a_percentages = <<>>

AggregatorCall ==
    /\ a_pc = "call"
    /\ a_percentages' = Aggregate(a_priors, a_factors)
    /\ a_pc' = "done"
    /\ UNCHANGED <<a_priors, a_factors>>
    /\ UNCHANGED <<matchVars, ingestVars, backfillVars, harnessVars,
                 engineVars, parseVars, continuousVars, rerunVars>>

Abs(x) == IF x < 0 THEN -x ELSE x

(* C10: the percentages of a response sum to 100 within 0.01, whatever the  *)
(* modulation factors are.                                                  *)
C10_SumsTo100 ==
    a_pc = "done" =>
        100 * Abs(SumSeq(a_percentages) - 100 * Resolution) <= Resolution

(* factors that differ between sources, so that the priors are reweighted *)
C10_Witness ==
    /\ a_pc = "done"
    /\ \E i, j \in 1..Len(a_priors) : a_factors[i] = 1 /\ a_factors[j] = 30
    /\ \E i \in 1..Len(a_priors) : a_percentages[i] # a_priors[i] * Resolution

(***************************************************************************)
(* The Context Normalizer and the Modulation Rule Set for the crop-burning *)
(* source (design document, 4.2 and 4.3).  The engine is not part of the   *)
(* sources; the document gives the shape of the rules and leaves the       *)
(* numbers to calibration, so the numbers below are one calibration: the   *)
(* document's example values where it gives one, and a north-west sector   *)
(* and an October-November season for crop burning.  Factors are in        *)
(* tenths, sector membership in units of 1/FalloffBand.                    *)
(***************************************************************************)
EngineSources ==
    <<"stubble_burning", "traffic", "secondary_aerosols", "dust", "local_combustion">>

StubbleIndex == 1

(* the source's wind sector (center_degrees, half_width_degrees) *)
StubbleSector == [center_degrees |-> 290, half_width_degrees |-> 45]

StubbleActiveMonths == {10, 11}

(* the falloff band of the sector membership, "e.g. an additional 20 degrees" *)
FalloffBand == 20

(* the clamp of the modulation factor, "e.g. to [0.1, 3.0]" *)
FactorFloor == 1

FactorCeiling == 30

Clamp(f) == Max({FactorFloor, Min({FactorCeiling, f})})

(* circular angular distance between two bearings *)
AngularDistance(a, b) ==
    LET d == (a - b) % 360
    IN  Min({d, 360 - d})

(* 1.0 inside half_width_degrees, linear decay over the falloff band, 0 beyond *)
SectorMembership(wind_dir, sector) ==
    LET d == AngularDistance(wind_dir, sector.center_degrees)
    IN  IF d <= sector.half_width_degrees THEN FalloffBand
        ELSE IF d >= sector.half_width_degrees + FalloffBand THEN 0
        ELSE sector.half_width_degrees + FalloffBand - d

(* active in active_months, partial in the months adjacent to them *)
SeasonTier(month, active_months) ==
    IF month \in active_months THEN "active"
    ELSE IF \E a \in active_months : (month - a) % 12 \in {1, 11} THEN "partial"
    ELSE "inactive"

(* "e.g. <=150 m", "<=500 m", "<=1500 m" *)
TrappingTier(blh) ==
    IF blh <= 150 THEN "extreme"
    ELSE IF blh <= 500 THEN "high"
    ELSE IF blh <= 1500 THEN "moderate"
    ELSE "low"

SeasonWeight(season_tier) ==
    IF season_tier = "active" THEN 2 ELSE IF season_tier = "partial" THEN 1 ELSE 0

(* faulty variant: the fire count scales the factor whatever the wind is *)
CombustionFactorUngated(sector_membership, season_tier, fire_count) ==
    IF season_tier = "inactive" THEN FactorFloor
    ELSE Clamp(FactorFloor
               + (FalloffBand * SeasonWeight(season_tier) * (10 + fire_count \div 10))
                     \div (2 * FalloffBand))

(* geographically-sourced combustion: the factor scales up with fire_count *)
(* only behind the wind and season gate, and is at the floor otherwise     *)
CombustionFactor(sector_membership, season_tier, fire_count) ==
    IF sector_membership = 0 \/ season_tier = "inactive" THEN FactorFloor
    ELSE Clamp(FactorFloor
               + (sector_membership * SeasonWeight(season_tier) * (10 + fire_count \div 10))
                     \div (2 * FalloffBand))

(* trapping-driven secondary formation: extreme >= 1.5, low <= 0.5 *)
SecondaryFactor(trapping_tier) ==
    IF trapping_tier = "extreme" THEN 20
    ELSE IF trapping_tier = "high" THEN 15
    ELSE IF trapping_tier = "moderate" THEN 10
    ELSE 5

(* requests: bearings, months, boundary-layer heights and fire counts of   *)
(* the validation cases, a bearing in the falloff band (240) included      *)
WindDirs == {30, 63, 114, 240, 283}

Months == {2, 11, 12}

BlhValues == {105, 270, 410, 595}

FireCounts == {1, 167, 316, 356}

Requests == [wind_dir : WindDirs, month : Months, blh : BlhValues, fire_count : FireCounts]

EngineCatalogs == {<<20, 20, 20, 20, 20>>, <<30, 25, 25, 16, 4>>}

(* factors of traffic, dust and local combustion, which the request fields *)
(* modelled here do not set                                                *)
RestFactors == [{"traffic", "dust", "local_combustion"} -> Factors]

StubbleMembership(request) == SectorMembership(request.wind_dir, StubbleSector)

EngineFactors(request, rest) ==
    [i \in 1..Len(EngineSources) |->
        IF EngineSources[i] = "stubble_burning"
        THEN CombustionFactor(StubbleMembership(request),
                              SeasonTier(request.month, StubbleActiveMonths),
                              request.fire_count)
        ELSE IF EngineSources[i] = "secondary_aerosols"
        THEN SecondaryFactor(TrappingTier(request.blh))
        ELSE rest[EngineSources[i]]]

(* the response's percentages: the rules' factors through the Aggregator *)
Attribute(request, priors, rest) == Aggregate(priors, EngineFactors(request, rest))

EngineInit ==
    /\ e_pc = "call"
    /\ e_request \in Requests
    /\ e_priors \in EngineCatalogs
    /\ e_rest \in RestFactors
    /\ e_pct = <<>>

EngineCall ==
    /\ e_pc = "call"
    /\ e_pct' = Attribute(e_request, e_priors, e_rest)
    /\ e_pc' = "done"
    /\ UNCHANGED <<e_request, e_priors, e_rest>>
    /\ UNCHANGED <<matchVars, ingestVars, backfillVars, harnessVars, aggregatorVars,
                   parseVars, continuousVars, rerunVars>>

(* the same request again with a larger fire_count, all else fixed *)
EngineMoreFires ==
    /\ e_pc = "done"
    /\ \E n \in FireCounts :
          /\ n > e_request.fire_count
          /\ e_request' = [e_request EXCEPT !.fire_count = n]
    /\ e_pct' = Attribute(e_request', e_priors, e_rest)
    /\ UNCHANGED <<e_pc, e_priors, e_rest>>
    /\ UNCHANGED <<matchVars, ingestVars, backfillVars, harnessVars, aggregatorVars,
                   parseVars, continuousVars, rerunVars>>

(* the validation cases whose wind is from the wrong direction: cases 1,   *)
(* 11 and 12 of TEST_CASES                                                 *)
WrongWindCases ==
    { [wind_dir |-> 30, month |-> 2, blh |-> 105, fire_count |-> 1],
      [wind_dir |-> 63, month |-> 12, blh |-> 410, fire_count |-> 167],
      [wind_dir |-> 114, month |-> 11, blh |-> 270, fire_count |-> 316] }

DigitValue ==
    [d \in {"0", "1", "2", "3", "4", "5", "6", "7", "8", "9"} |->
        CASE d = "0" -> 0 [] d = "1" -> 1 [] d = "2" -> 2 [] d = "3" -> 3 [] d = "4" -> 4
          [] d = "5" -> 5 [] d = "6" -> 6 [] d = "7" -> 7 [] d = "8" -> 8 [] d = "9" -> 9]

RECURSIVE DigitsValue(_)
DigitsValue(s) ==
    IF s = <<>> THEN 0 ELSE 10 * DigitsValue(SubSeq(s, 1, Len(s) - 1)) + DigitValue[s[Len(s)]]

(* float(s) raises ValueError unless s, stripped, is a run of digits; the  *)
(* signs, points and exponents float also reads are not in the inputs      *)
FloatRaises(s) ==
    \/ Strip(s) = <<>>
    \/ \E i \in 1..Len(Strip(s)) : Strip(s)[i] \notin DOMAIN DigitValue

Float(s) == DigitsValue(Strip(s))

StrEmpty == <<>>

StrNA == <<"N", "A">>

StrDash == <<"-">>

StrWord == <<"l", "o", "w">>

StrZero == <<"0">>

StrZeroPadded == <<" ", "0">>

StrTwelve == <<"1", "2">>

HourlyStrings == {StrEmpty, StrNA, StrDash, StrWord, StrZero, StrZeroPadded, StrTwelve}

NoElement == [present |-> FALSE, hourly |-> <<>>]

PollutantElements ==
    {NoElement} \cup {[present |-> TRUE, hourly |-> h] : h \in {<<>>} \cup {<<s>> : s \in HourlyStrings}}

(* the ids of the Pollutant_Index elements of the Station element *)
ElementIds == {"PM2.5", "PM10", "NO2"}

(* faulty variant: a value that float cannot read is recorded as 0 *)
ParsedIdsZeroOnError(raw) ==
    {id \in DOMAIN raw : raw[id].present /\ raw[id].hourly # <<>>
                          /\ raw[id].hourly[1] # <<>> /\ raw[id].hourly[1] # StrNA}

(* lines 79-83: the ids that get an entry in pollutants *)
ParsedIds(raw) ==
    {id \in DOMAIN raw : raw[id].present /\ raw[id].hourly # <<>>
                          /\ raw[id].hourly[1] # <<>> /\ raw[id].hourly[1] # StrNA
                          /\ ~FloatRaises(raw[id].hourly[1])}

(* lines 74-83: the pollutants map of the parsed station *)
ParsePollutants(raw) ==
    [id \in ParsedIds(raw) |->
        IF FloatRaises(raw[id].hourly[1]) THEN 0 ELSE Float(raw[id].hourly[1])]

ParseTime == 1

ParseInit ==
    /\ p_pc = "parse"
    /\ p_raw \in [ElementIds -> PollutantElements]
    /\ p_pollutants = <<>>
    /\ p_rows = <<>>
    /\ p_ret = None

(* parse_rss_feed, lines 57-95, on the element *)
ParseStation ==
    /\ p_pc = "parse"
    /\ p_pollutants' = <<ParsePollutants(p_raw)>>
    /\ p_pc' = "update"
    /\ UNCHANGED <<p_raw, p_rows, p_ret>>
    /\ UNCHANGED <<matchVars, ingestVars, backfillVars, harnessVars, aggregatorVars,
                   engineVars, continuousVars, rerunVars>>

(* update_station_csv on the parsed station and its file, which is empty *)
ParseUpdate ==
    /\ p_pc = "update"
    /\ LET station_row == IngestTable[1]
           fs == [fn \in FileNames |-> [status |-> "ok", rows |-> <<>>]]
           r == update_station_csv(station_row,
                                   [name |-> NameABC, timestamp |-> ParseTime,
                                    pollutants |-> p_pollutants[1]],
                                   fs)
       IN  /\ p_rows' = r.files[station_row.filename].rows
           /\ p_ret' = r.ret
    /\ p_pc' = "done"
    /\ UNCHANGED <<p_raw, p_pollutants>>
    /\ UNCHANGED <<matchVars, ingestVars, backfillVars, harnessVars, aggregatorVars,
                   engineVars, continuousVars, rerunVars>>

(* the feed gives no usable value: no element, no attribute, "", "NA", or  *)
(* text that is not a number                                               *)
NoValue(element) ==
    \/ ~element.present
    \/ element.hourly = <<>>
    \/ element.hourly[1] \in {StrEmpty, StrNA, StrDash, StrWord}

(* the feed reports the number 0 *)
ReportsZero(element) ==
    element.present /\ element.hourly # <<>> /\ element.hourly[1] \in {StrZero, StrZeroPadded}

(* C13: absent and zero are never conflated.  A pollutant whose hourly value *)
(* is missing, "NA" or not a number has no entry in the parsed pollutant map *)
(* and no value (not 0) in the appended row; a pollutant reported as 0 has   *)
(* the entry 0 and the value 0 in the row.                                   *)
C13_AbsentIsNotZero ==
    p_pc \in {"update", "done"} =>
        \A id \in ElementIds :
            /\ NoValue(p_raw[id]) =>
                  /\ id \notin DOMAIN p_pollutants[1]
                  /\ \A i \in 1..Len(p_rows) : p_rows[i].vals[POLLUTANT_MAP[id]] = NaN
            /\ ReportsZero(p_raw[id]) =>
                  /\ id \in DOMAIN p_pollutants[1]
                  /\ p_pollutants[1][id] = 0
                  /\ \A i \in 1..Len(p_rows) : p_rows[i].vals[POLLUTANT_MAP[id]] = Cell(0)

(* a row was appended with PM2.5 reported as 0 and PM10 as "NA" *)
C13_Witness ==
    /\ p_pc = "done"
    /\ p_ret = "True"
    /\ p_raw["PM2.5"].hourly = <<StrZero>>
    /\ p_raw["PM10"].hourly = <<StrNA>>
    /\ Len(p_rows) = 1
    /\ p_rows[1].vals["PM25"] = Cell(0)
    /\ p_rows[1].vals["PM10"] = NaN

(***************************************************************************)
(* --continuous mode, lines 246-252: while True: main(); sleep one hour.   *)
(* Each cycle meets an environment of its own: the metadata file there or  *)
(* not, the request answered or not, the answer well-formed XML or not,    *)
(* the matched station's CSV there or not.                                 *)
(***************************************************************************)
MaxCycles == 2

CycleEnvs ==
    [metadata : BOOLEAN, network : {"ok", "fail"}, xml : {"ok", "bad"},
     csv : {"ok", "missing"}]

(* faulty variant: requests.RequestException is not caught *)
fetch_rss_feed_uncaught(network) ==
    IF network = "fail" THEN [raised |-> TRUE, xml_content |-> <<>>]
    ELSE [raised |-> FALSE, xml_content |-> <<"xml">>]

(* fetch_rss_feed: xml_content is <<>> for None *)
fetch_rss_feed(network) ==
    IF network = "fail" THEN [raised |-> FALSE, xml_content |-> <<>>]
    ELSE [raised |-> FALSE, xml_content |-> <<"xml">>]

ContinuousInit ==
    /\ c_pc = "main"
    /\ c_env \in CycleEnvs
    /\ c_last = None
    /\ c_cycles = 1

(* main, lines 193-199: no metadata file: return *)
CycleLoadStations ==
    /\ c_pc = "main"
    /\ IF c_env.metadata
       THEN c_pc' = "fetch" /\ UNCHANGED c_last
       ELSE c_pc' = "sleep" /\ c_last' = "no_metadata"
    /\ UNCHANGED <<c_env, c_cycles>>
    /\ UNCHANGED <<matchVars, ingestVars, backfillVars, harnessVars, aggregatorVars,
                   engineVars, parseVars, rerunVars>>

(* main, lines 202-205: no content: return *)
CycleFetch ==
    /\ c_pc = "fetch"
    /\ LET r == fetch_rss_feed(c_env.network)
       IN  IF r.raised THEN c_pc' = "crashed" /\ UNCHANGED c_last
           ELSE IF r.xml_content = <<>> THEN c_pc' = "sleep" /\ c_last' = "feed_error"
           ELSE c_pc' = "parse" /\ UNCHANGED c_last
    /\ UNCHANGED <<c_env, c_cycles>>
    /\ UNCHANGED <<matchVars, ingestVars, backfillVars, harnessVars, aggregatorVars,
                   engineVars, parseVars, rerunVars>>

(* main, lines 211-243 on XML that does not parse: parse_rss_feed returns  *)
(* {}, the loop has nothing to do and the summary ends the run             *)
CycleParse ==
    /\ c_pc = "parse"
    /\ IF c_env.xml = "bad"
       THEN c_pc' = "sleep" /\ c_last' = "parse_error"
       ELSE c_pc' = "loop" /\ UNCHANGED c_last
    /\ UNCHANGED <<c_env, c_cycles>>
    /\ UNCHANGED <<matchVars, ingestVars, backfillVars, harnessVars, aggregatorVars,
                   engineVars, parseVars, rerunVars>>

(* main, lines 221-243: update_station_csv returns False for a missing CSV *)
(* (lines 141-143); the summary ends the run                               *)
CycleUpdate ==
    /\ c_pc = "loop"
    /\ c_last' = IF c_env.csv = "missing" THEN "csv_missing" ELSE "updated"
    /\ c_pc' = "sleep"
    /\ UNCHANGED <<c_env, c_cycles>>
    /\ UNCHANGED <<matchVars, ingestVars, backfillVars, harnessVars, aggregatorVars,
                   engineVars, parseVars, rerunVars>>

(* lines 249-252: the sleep ends and the loop calls main again; cycles are *)
(* counted up to MaxCycles                                                 *)
CycleSleep ==
    /\ c_pc = "sleep"
    /\ c_pc' = "main"
    /\ c_env' \in CycleEnvs
    /\ c_cycles' = IF c_cycles < MaxCycles THEN c_cycles + 1 ELSE c_cycles
    /\ UNCHANGED c_last
    /\ UNCHANGED <<matchVars, ingestVars, backfillVars, harnessVars, aggregatorVars,
                   engineVars, parseVars, rerunVars>>

CycleFailures == {"no_metadata", "feed_error", "parse_error", "csv_missing"}

(* C15: in --continuous mode main runs again after every sleep, forever.  A  *)
(* cycle in which the request fails, the XML does not parse, the metadata    *)
(* file or a station CSV is missing ends in the sleep, the loop never stops, *)
(* and the next cycle is always attempted.                                   *)
C15_NextCycleAlwaysAttempted ==
    /\ [](c_pc # "crashed")
    /\ (c_pc = "main") ~> (c_pc = "sleep")
    /\ \A failure \in CycleFailures :
          (c_pc = "sleep" /\ c_last = failure) ~> (c_pc = "main" /\ c_last = failure)

(* main is running again after a cycle in which the request failed *)
C15_Witness ==
    /\ c_pc = "main"
    /\ c_cycles >= 2
    /\ c_last = "feed_error"

(***************************************************************************)
(* Two runs of fetch_cpcb_live.main on the same parsed feed and the same   *)
(* metadata.  The feed is a dict keyed by station id: a sequence of        *)
(* entries with distinct names, read in the same order by both runs.       *)
(***************************************************************************)
RerunFeeds ==
    {feed \in SeqUpTo(FeedEntries, MaxFeed) :
        \A i, j \in 1..Len(feed) : i # j => feed[i].name # feed[j].name}

RerunFiles ==
    {fs \in InitialFiles : fs["f1"].rows # <<OldRow(MaxTime)>> /\ fs["f2"].rows = <<>>
                           /\ fs["f2"].status # "unreadable"}

RerunInit ==
    /\ r_pc = "loop"
    /\ r_feed \in RerunFeeds
    /\ r_files \in RerunFiles
    /\ r_run = 1
    /\ r_idx = 1
    /\ r_updated = 0
    /\ r_first = <<>>

(* main, lines 221-236: one entry of the feed *)
RerunStep ==
    /\ r_pc = "loop"
    /\ r_idx <= Len(r_feed)
    /\ LET rss_data == r_feed[r_idx]
           match == MatchOf[rss_data.name]
       IN  IF match # 0
           THEN LET r == update_station_csv(our_stations[match], rss_data, r_files)
                IN  /\ r_files' = r.files
                    /\ r_updated' = IF r.ret = "True" THEN r_updated + 1 ELSE r_updated
           ELSE UNCHANGED <<r_files, r_updated>>
    /\ r_idx' = r_idx + 1
    /\ UNCHANGED <<r_pc, r_feed, r_run, r_first>>
    /\ UNCHANGED <<matchVars, ingestVars, backfillVars, harnessVars, aggregatorVars,
                   engineVars, parseVars, continuousVars>>

(* main, lines 238-243: the summary reports updated and the run ends *)
RerunSummary ==
    /\ r_pc = "loop"
    /\ r_idx > Len(r_feed)
    /\ r_pc' = IF r_run = 1 THEN "summary" ELSE "done"
    /\ r_first' = IF r_run = 1 THEN <<r_files>> ELSE r_first
    /\ UNCHANGED <<r_feed, r_files, r_run, r_idx, r_updated>>
    /\ UNCHANGED <<matchVars, ingestVars, backfillVars, harnessVars, aggregatorVars,
                   engineVars, parseVars, continuousVars>>

(* main is run a second time, lines 218-219: the counters start at 0 *)
RerunAgain ==
    /\ r_pc = "summary"
    /\ r_run' = 2
    /\ r_idx' = 1
    /\ r_updated' = 0
    /\ r_pc' = "loop"
    /\ UNCHANGED <<r_feed, r_files, r_first>>
    /\ UNCHANGED <<matchVars, ingestVars, backfillVars, harnessVars, aggregatorVars,
                   engineVars, parseVars, continuousVars>>

(* C17: live ingestion is idempotent.  A second run of main on the same feed *)
(* and the same metadata adds no row (it reports 0 updated) and leaves every *)
(* station file as the first run left it.                                    *)
C17_SecondRunAddsNothing ==
    r_run = 2 => r_updated = 0 /\ r_files = r_first[1]

(* the second run has ended after a first run that added a row to each of  *)
(* the two station files                                                   *)
C17_Witness ==
    /\ r_pc = "done"
    /\ r_run = 2
    /\ Len(r_files["f1"].rows) = 2
    /\ Len(r_files["f2"].rows) = 1

(* SPECIFICATIONS *)
MatchIdle == m_pc = "off" /\ m_rss_name = <<>> /\ m_stations = <<>> /\ m_result = 0

IngestIdle ==
    /\ files = [fn \in FileNames |-> [status |-> "missing", rows |-> <<>>]]
    /\ f_pc = "off"
    /\ f_seen = {}
    /\ f_entry = <<>>
    /\ matched = 0
    /\ updated = 0
    /\ f_ret = None

BackfillIdle ==
    /\ b_pc = "off"
    /\ b_meta = FALSE
    /\ wind_file = [status |-> "missing", rows |-> <<>>]
    /\ now = 0
    /\ last_ts = <<>>
    /\ use_forecast = FALSE
    /\ b_idx = 1
    /\ all_data = <<>>
    /\ b_skipped = {}
    /\ b_failed = {}
    /\ b_wrote = FALSE

HarnessIdle ==
    /\ t_pc = "off"
    /\ t_case = [expected_high |-> <<>>, expected_low |-> <<>>]
    /\ t_api_ok = FALSE
    /\ t_response = [s \in HarnessSources |-> <<>>]
    /\ t_passed = FALSE

AggregatorIdle ==
    /\ a_pc = "off"
    /\ a_priors = <<>>
    /\ a_factors = <<>>
    /\ a_percentages = <<>>

EngineIdle ==
    /\ e_pc = "off"
    /\ e_request = [wind_dir |-> 0, month |-> 1, blh |-> 0, fire_count |-> 0]
    /\ e_priors = <<>>
    /\ e_rest = <<>>
    /\ e_pct = <<>>

ParseIdle ==
    /\ p_pc = "off"
    /\ p_raw = <<>>
    /\ p_pollutants = <<>>
    /\ p_rows = <<>>
    /\ p_ret = None

ContinuousIdle ==
    /\ c_pc = "off"
    /\ c_env = [metadata |-> FALSE, network |-> "fail", xml |-> "bad", csv |-> "missing"]
    /\ c_last = None
    /\ c_cycles = 0

RerunIdle ==
    /\ r_pc = "off"
    /\ r_feed = <<>>
    /\ r_files = [fn \in FileNames |-> [status |-> "missing", rows |-> <<>>]]
    /\ r_run = 0
    /\ r_idx = 0
    /\ r_updated = 0
    /\ r_first = <<>>

(* what the other parts hold while one of them runs *)
RestIdle == EngineIdle /\ ParseIdle /\ ContinuousIdle /\ RerunIdle

(* find_matching_station on every feed name and metadata table *)
InitMatch == MatchInit /\ IngestIdle /\ BackfillIdle /\ HarnessIdle /\ AggregatorIdle /\ RestIdle

NextMatch == MatchCall

SpecMatch == InitMatch /\ [][NextMatch]_vars

(* runs of fetch_cpcb_live.main *)
InitIngest == IngestInit /\ MatchIdle /\ BackfillIdle /\ HarnessIdle /\ AggregatorIdle /\ RestIdle

SpecIngest == InitIngest /\ [][IngestNext]_vars

(* a run of backfill_wind.main with get_last_timestamp in place *)
InitBackfill == BackfillInit /\ MatchIdle /\ IngestIdle /\ HarnessIdle /\ AggregatorIdle /\ RestIdle

SpecBackfill == InitBackfill /\ [][BackfillNext]_vars

(* a run of backfill_wind.main as the module is written *)
SpecBackfillAsWritten == InitBackfill /\ [][BackfillNextAsWritten]_vars

(* run_test on every test case and response *)
InitHarness == HarnessInit /\ MatchIdle /\ IngestIdle /\ BackfillIdle /\ AggregatorIdle /\ RestIdle

NextHarness == RunTest

SpecHarness == InitHarness /\ [][NextHarness]_vars

(* the Aggregator on every catalog and factor assignment *)
InitAggregator == AggregatorInit /\ MatchIdle /\ IngestIdle /\ BackfillIdle /\ HarnessIdle /\ RestIdle

NextAggregator == AggregatorCall

SpecAggregator == InitAggregator /\ [][NextAggregator]_vars

(* the crop-burning rule on every request, and on the same request with more fires *)
InitEngine ==
    /\ EngineInit /\ MatchIdle /\ IngestIdle /\ BackfillIdle /\ HarnessIdle
    /\ AggregatorIdle /\ ParseIdle /\ ContinuousIdle /\ RerunIdle

NextEngine == EngineCall \/ EngineMoreFires

SpecEngine == InitEngine /\ [][NextEngine]_vars

(* parse_rss_feed and update_station_csv on every Station element *)
InitParse ==
    /\ ParseInit /\ MatchIdle /\ IngestIdle /\ BackfillIdle /\ HarnessIdle
    /\ AggregatorIdle /\ EngineIdle /\ ContinuousIdle /\ RerunIdle

NextParse == ParseStation \/ ParseUpdate

SpecParse == InitParse /\ [][NextParse]_vars

(* the --continuous loop; the process keeps running, and every sleep ends *)
InitContinuous ==
    /\ ContinuousInit /\ MatchIdle /\ IngestIdle /\ BackfillIdle /\ HarnessIdle
    /\ AggregatorIdle /\ EngineIdle /\ ParseIdle /\ RerunIdle

NextContinuous == CycleLoadStations \/ CycleFetch \/ CycleParse \/ CycleUpdate \/ CycleSleep

SpecContinuous == InitContinuous /\ [][NextContinuous]_vars /\ WF_vars(NextContinuous)

(* main twice on every feed *)
InitRerun ==
    /\ RerunInit /\ MatchIdle /\ IngestIdle /\ BackfillIdle /\ HarnessIdle
    /\ AggregatorIdle /\ EngineIdle /\ ParseIdle /\ ContinuousIdle

NextRerun == RerunStep \/ RerunSummary \/ RerunAgain

SpecRerun == InitRerun /\ [][NextRerun]_vars

=============================================================================
